---- MODULE Spec2Model ----
(***************************************************************************)
(* EnergiChain AI utilities: the cylinder safety scanner                   *)
(* (src/ai/computer-vision/cylinder_scanner.py) and the demand forecaster  *)
(* (src/ai/demand-forecasting/forecaster.py).                              *)
(*                                                                         *)
(* The learned networks are opaque: what they return for an input is part  *)
(* of the input drawn in Init.  Everything around them (feature            *)
(* extraction, padding, ranking, report assembly, exception handling) is   *)
(* modelled from the code.  Real numbers are exact rationals <<num, den>>  *)
(* with den > 0.                                                           *)
(***************************************************************************)
EXTENDS Integers, Sequences, FiniteSets, TLC

VARIABLES
    clock,      \* datetime.now(): advances with every public call
    image,      \* scanner input: what the file, the CNN and the colour mask give
    report,     \* outcome of scan_cylinder(image)
    twin,       \* outcome of scan_cylinder on the same picture with the other rust reading
    customer,   \* forecaster input: the customer_data argument
    lstm_answer,       \* what the sequence model answers for this customer
    features_out,   \* outcome of extract_features(customer)
    sequence_out,   \* outcome of prepare_sequences on the features
    usage_out,      \* outcome of analyze_usage_pattern(customer)
    prediction_out, \* outcome of predict_next_order(customer)
    rec_args,   \* the arguments of get_recommendation
    recommendation,  \* outcome of get_recommendation(rec_args)
    batch,      \* the customers_data argument of batch_predict, with the model's answers
    batch_result     \* outcome of batch_predict(batch)

scannerVars == <<image, report, twin>>
forecasterVars == <<customer, lstm_answer, features_out, sequence_out, usage_out, prediction_out,
                    rec_args, recommendation, batch, batch_result>>
vars == <<clock, scannerVars, forecasterVars>>

(***************************************************************************)
(* Outcomes of a Python call, and exact rationals.                         *)
(***************************************************************************)
NoCall == [kind |-> "none"]
Return(v) == [kind |-> "return", value |-> v]
Raise(e) == [kind |-> "raise", exc |-> e]

RatLT(a, b) == a[1] * b[2] < b[1] * a[2]
RatGT(a, b) == RatLT(b, a)
RatLE(a, b) == ~RatLT(b, a)
RatEQ(a, b) == a[1] * b[2] = b[1] * a[2]

RECURSIVE SumTo(_, _)
SumTo(f, n) == IF n = 0 THEN 0 ELSE f[n] + SumTo(f, n - 1)

(***************************************************************************)
(* CylinderSafetyScanner                                                   *)
(***************************************************************************)
classes == <<"safe", "rust", "dent", "valve_damage", "expired", "leaking">>

severity ==
    [safe |-> 0, rust |-> 2, dent |-> 3, valve_damage |-> 4,
     expired |-> 5, leaking |-> 5]

NumClasses == Len(classes)

\* Probabilities are multiples of 1 / ProbDen; a softmax output is any
\* 6-way vector of such multiples that sums to 1.
ProbDen == 10
PredictionVectors ==
    {[i \in 1..NumClasses |->
        IF i < NumClasses THEN q[i] ELSE ProbDen - SumTo(q, NumClasses - 1)] :
     q \in {q \in [1..(NumClasses - 1) -> 0..ProbDen] :
                SumTo(q, NumClasses - 1) <= ProbDen}}

\* np.argsort (default kind, not stable): some permutation of the indices
\* that puts the values in ascending order; which one among ties is the
\* build's choice, fixed for a given input.
IndexOrders == Permutations(1..NumClasses)

ArgsortResults(a) ==
    {o \in IndexOrders :
        \A i \in 1..(NumClasses - 1) : a[o[i]] <= a[o[i + 1]]}

\* Percentage of rust-coloured pixels seen by the HSV mask.
RustPercentages == {5, 6}

Faults == {"none", "unreadable", "model_raises", "rust_raises"}

\* cv2.imread returns None for a file it cannot decode; preprocess_image raises.
preprocess_image(img) ==
    IF img.fault = "unreadable"
    THEN Raise("ValueError: Could not read image")
    ELSE Return(img)

model_predict(img) ==
    IF img.fault = "model_raises"
    THEN Raise("framework error")
    ELSE Return(img.predictions)

rust_threshold == 5

detect_rust(img) ==
    IF img.fault = "rust_raises"
    THEN Raise("cv2.error")
    ELSE Return(img.rust_percentage > rust_threshold)

detect_expiry(img) == [expired |-> FALSE, expiry_date |-> "None", confidence |-> <<0, 1>>]

\* np.argsort(predictions[0])[::-1][:3]
top_k == 3

top_indices_ascending(img) ==
    [k \in 1..top_k |-> img.argsort[k]]

top_indices(img) ==
    [k \in 1..top_k |-> img.argsort[NumClasses + 1 - k]]

\* A variant in which the colour heuristic overrides the learned verdict.
results_rust_override(img) ==
    [k \in 1..top_k |->
        IF k = 1 /\ img.rust_percentage > 5
        THEN [issue |-> "rust", confidence |-> <<ProbDen, ProbDen>>,
              severity |-> severity["rust"]]
        ELSE [issue |-> classes[top_indices(img)[k]],
              confidence |-> <<img.predictions[top_indices(img)[k]], ProbDen>>,
              severity |-> severity[classes[top_indices(img)[k]]]]]

results(img) ==
    [k \in 1..top_k |->
        [issue |-> classes[top_indices(img)[k]],
         confidence |-> <<img.predictions[top_indices(img)[k]], ProbDen>>,
         severity |-> severity[classes[top_indices(img)[k]]]]]

recommendations ==
    [safe |-> "Cylinder is in good condition. Safe to use.",
     rust |-> "Minor rust detected. Monitor condition. Replace if rust increases.",
     dent |-> "Physical damage detected. Do not use. Return for inspection.",
     valve_damage |-> "Valve damage detected. CRITICAL - Do not use. Replace immediately.",
     expired |-> "Cylinder has expired. Do not refill. Return for exchange.",
     leaking |-> "DANGER - Leakage detected. Turn off valve, ventilate area, call support immediately."]

\* A variant that gives the 'safe' message only above the confidence at
\* which is_safe holds.
scanner_get_recommendation_confident(primary_issue) ==
    IF primary_issue.issue = "safe" /\ ~(10 * primary_issue.confidence[1] > 7 * primary_issue.confidence[2])
    THEN "Unknown issue. Contact support."
    ELSE IF primary_issue.issue \in DOMAIN recommendations
    THEN recommendations[primary_issue.issue]
    ELSE "Unknown issue. Contact support."

scanner_get_recommendation(primary_issue) ==
    IF primary_issue.issue \in DOMAIN recommendations
    THEN recommendations[primary_issue.issue]
    ELSE "Unknown issue. Contact support."

safe_confidence == <<7, 10>>

is_safe_inclusive(primary_issue) ==
    primary_issue.issue = "safe" /\ ~RatLT(primary_issue.confidence, safe_confidence)

is_safe(primary_issue) ==
    primary_issue.issue = "safe" /\ RatGT(primary_issue.confidence, safe_confidence)

\* The try block of scan_cylinder: the first failing step raises.
scan_body(img, now) ==
    IF preprocess_image(img).kind = "raise" THEN preprocess_image(img)
    ELSE IF model_predict(img).kind = "raise" THEN model_predict(img)
    ELSE IF detect_rust(img).kind = "raise" THEN detect_rust(img)
    ELSE LET primary_issue == results(img)[1]
         IN  Return(
                [timestamp |-> now,
                 image_path |-> "image_path",
                 primary_issue |-> primary_issue.issue,
                 confidence |-> primary_issue.confidence,
                 severity_level |-> primary_issue.severity,
                 all_detections |-> results(img),
                 rust_analysis |-> [detected |-> detect_rust(img).value,
                                    method |-> "color_analysis"],
                 expiry_analysis |-> detect_expiry(img),
                 is_safe |-> is_safe(primary_issue),
                 recommendation |-> scanner_get_recommendation(primary_issue)])

scan_cylinder_uncaught(img, now) == scan_body(img, now)

\* except Exception as e: return {'error': str(e), 'timestamp': ...}
scan_cylinder(img, now) ==
    IF scan_body(img, now).kind = "raise"
    THEN Return([error |-> scan_body(img, now).exc, timestamp |-> now])
    ELSE scan_body(img, now)

(***************************************************************************)
(* Calendar dates: an ISO date text 'YYYY-MM-DD' is the triple <<y, m, d>>; *)
(* a text that is no date at all is <<0, 0, 0>>.                           *)
(***************************************************************************)
IsLeap(y) == (y % 4 = 0) /\ ((y % 100 # 0) \/ (y % 400 = 0))

DaysInMonth(y, m) ==
    IF m = 2 THEN (IF IsLeap(y) THEN 29 ELSE 28)
    ELSE IF m \in {4, 6, 9, 11} THEN 30 ELSE 31

RECURSIVE DaysBeforeMonth(_, _)
DaysBeforeMonth(y, m) ==
    IF m = 1 THEN 0 ELSE DaysBeforeMonth(y, m - 1) + DaysInMonth(y, m - 1)

DaysBeforeYear(y) ==
    (y - 1) * 365 + ((y - 1) \div 4) - ((y - 1) \div 100) + ((y - 1) \div 400)

\* date.toordinal()
ToOrdinal(date) == DaysBeforeYear(date[1]) + DaysBeforeMonth(date[1], date[2]) + date[3]

\* datetime.fromisoformat: ValueError unless the text is a valid calendar date
fromisoformat(text) ==
    IF /\ text[1] \in 1..9999
       /\ text[2] \in 1..12
       /\ text[3] \in 1..DaysInMonth(text[1], text[2])
    THEN Return(text)
    ELSE Raise("ValueError: Invalid isoformat string")

Years == 2023..2028

\* date.fromordinal(), used by date + timedelta(days=k)
FromOrdinal(n) ==
    LET y == CHOOSE yy \in Years : DaysBeforeYear(yy) < n /\ n <= DaysBeforeYear(yy + 1)
        m == CHOOSE mm \in 1..12 :
                /\ DaysBeforeMonth(y, mm) < n - DaysBeforeYear(y)
                /\ n - DaysBeforeYear(y) <= DaysBeforeMonth(y, mm) + DaysInMonth(y, mm)
    IN  <<y, m, n - DaysBeforeYear(y) - DaysBeforeMonth(y, m)>>

AddDays(date, k) == FromOrdinal(ToOrdinal(date) + k)

\* (date2 - date1).days
DaysBetween(date1, date2) == ToOrdinal(date2) - ToOrdinal(date1)

\* date.weekday(): Monday is 0
weekday(date) == (ToOrdinal(date) + 6) % 7

(***************************************************************************)
(* DemandForecaster                                                        *)
(*                                                                         *)
(* A customer_data argument is [shape, keys, customer_id, family_size,     *)
(* orders]: shape "dict" is a dictionary holding the keys in `keys`; any   *)
(* other shape is an object that is no dictionary (None, a list).  An      *)
(* order is [keys, date, cylinder_size].                                   *)
(***************************************************************************)
lookback_days == 30
forecast_days == 7
num_features == 7

default_family_size == 4

size_map(size) ==
    IF size = "6kg" THEN 6
    ELSE IF size = "13kg" THEN 13
    ELSE IF size = "50kg" THEN 50
    ELSE 13

default_avg_interval == 30

\* The first exception the loop of extract_features meets at order i, if any:
\* order['date'], fromisoformat(order['date']), order['cylinder_size'].
OrderProblem(order) ==
    IF "date" \notin order.keys THEN "KeyError: 'date'"
    ELSE IF fromisoformat(order.date).kind = "raise" THEN fromisoformat(order.date).exc
    ELSE IF "cylinder_size" \notin order.keys THEN "KeyError: 'cylinder_size'"
    ELSE "ok"

\* recent_intervals for order i (1-based; the code's index is i - 1):
\* for j in range(i-3, i): (date(orders[j+1]) - date(orders[j])).days
recent_intervals(orders, i) ==
    [k \in 1..3 |-> DaysBetween(orders[i - 4 + k].date, orders[i - 3 + k].date)]

\* A variant that averages the three intervals that end before order i.
avg_interval_feature_prior(orders, i) ==
    IF i - 1 >= 4
    THEN <<SumTo(recent_intervals(orders, i - 1), 3), 3 * 100>>
    ELSE <<default_avg_interval, 100>>

avg_interval_feature(orders, i) ==
    IF i - 1 >= 3
    THEN <<SumTo(recent_intervals(orders, i), 3), 3 * 100>>
    ELSE <<default_avg_interval, 100>>

feature_row(orders, family_size, i) ==
    LET order_date == orders[i].date
        days_since_last ==
            IF i - 1 > 0 THEN DaysBetween(orders[i - 1].date, order_date) ELSE 0
        cylinder_size == size_map(orders[i].cylinder_size)
        day_of_week == weekday(order_date)
        week_of_month == ((order_date[3] - 1) \div 7) + 1
        month == order_date[2]
    IN  << <<days_since_last, 100>>,
           <<cylinder_size, 50>>,
           <<day_of_week, 7>>,
           <<week_of_month, 5>>,
           <<month, 12>>,
           <<family_size, 10>>,
           avg_interval_feature(orders, i) >>

\* np.array(features): a sequence of rows; empty when there are no orders.
extract_features(customer_data) ==
    IF customer_data.shape # "dict" THEN Raise("TypeError: not subscriptable")
    ELSE IF "orders" \notin customer_data.keys THEN Raise("KeyError: 'orders'")
    ELSE
        LET orders == customer_data.orders
            family_size ==
                IF "family_size" \in customer_data.keys
                THEN customer_data.family_size
                ELSE default_family_size
            bad == {i \in 1..Len(orders) : OrderProblem(orders[i]) # "ok"}
        IN  IF bad # {}
            THEN Raise(OrderProblem(orders[CHOOSE i \in bad : \A j \in bad : i <= j]))
            ELSE Return([i \in 1..Len(orders) |-> feature_row(orders, family_size, i)])

\* np.zeros((k, columns))
zeros(k, columns) == [r \in 1..k |-> [c \in 1..columns |-> <<0, 1>>]]

FirstRows(rows, k) ==
    IF Len(rows) <= k THEN rows ELSE SubSeq(rows, 1, k)

\* features[-k:]
LastRows(rows, k) ==
    IF Len(rows) <= k THEN rows ELSE SubSeq(rows, Len(rows) - k + 1, Len(rows))

\* The array of an empty feature list has shape (0,): features.shape[1]
\* raises IndexError.  The result carries a leading batch dimension of 1.
prepare_sequences(features) ==
    IF Len(features) < lookback_days
    THEN IF Len(features) = 0
         THEN Raise("IndexError: tuple index out of range")
         ELSE Return(<<LastRows(zeros(lookback_days - Len(features), Len(features[1]))
                                \o features, lookback_days)>>)
    ELSE Return(<<LastRows(features, lookback_days)>>)

(***************************************************************************)
(* analyze_usage_pattern                                                   *)
(***************************************************************************)
RECURSIVE SumSq(_, _)
SumSq(f, n) == IF n = 0 THEN 0 ELSE f[n] * f[n] + SumSq(f, n - 1)

\* intervals between consecutive orders, in list order
order_intervals(orders) ==
    [i \in 1..(Len(orders) - 1) |-> DaysBetween(orders[i].date, orders[i + 1].date)]

\* With m intervals of sum S and sum of squares Q: np.mean is S / m and
\* np.std (population) is sqrt(V) / m with V = m * Q - S * S >= 0, so
\* std / mean is sqrt(V) / S.  In float64 arithmetic 0 / 0 is NaN and
\* x / 0 (x > 0) is +inf; a comparison with NaN is false.
VarNum(intervals) ==
    Len(intervals) * SumSq(intervals, Len(intervals))
        - SumTo(intervals, Len(intervals)) * SumTo(intervals, Len(intervals))

ratio_at_most(intervals, c) ==
    LET S == SumTo(intervals, Len(intervals))
        V == VarNum(intervals)
    IN  IF S > 0 THEN c[2] * c[2] * V <= c[1] * c[1] * S * S
        ELSE IF S < 0 THEN TRUE
        ELSE FALSE

\* std_interval / avg_interval < c   for c = <<p, q>> > 0
ratio_less_than(intervals, c) ==
    LET S == SumTo(intervals, Len(intervals))
        V == VarNum(intervals)
    IN  IF S > 0 THEN c[2] * c[2] * V < c[1] * c[1] * S * S
        ELSE IF S < 0 THEN TRUE
        ELSE FALSE

very_consistent_below == <<2, 10>>
consistent_below == <<4, 10>>

consistency_of(intervals) ==
    IF ratio_less_than(intervals, very_consistent_below) THEN "very_consistent"
    ELSE IF ratio_less_than(intervals, consistent_below) THEN "consistent"
    ELSE "variable"

heavy_below == 15
regular_below == 30

pattern_of(intervals) ==
    LET S == SumTo(intervals, Len(intervals))
    IN  IF S < heavy_below * Len(intervals) THEN "heavy_user"
        ELSE IF S < regular_below * Len(intervals) THEN "regular_user"
        ELSE "light_user"

\* round(n / d, 1) in tenths, ties to even (d > 0)
RoundTenths(n, d) ==
    LET q == (10 * n) \div d
        r == (10 * n) % d
    IN  IF 2 * r < d THEN q
        ELSE IF 2 * r > d THEN q + 1
        ELSE IF q % 2 = 0 THEN q ELSE q + 1

MaxOf(f) == CHOOSE x \in {f[i] : i \in DOMAIN f} : \A i \in DOMAIN f : f[i] <= x
MinOf(f) == CHOOSE x \in {f[i] : i \in DOMAIN f} : \A i \in DOMAIN f : x <= f[i]

\* round(sqrt(V) / m, 1) in tenths, ties to even
RoundStdTenths(intervals) ==
    LET m == Len(intervals)
        V == VarNum(intervals)
        top == 10 * (MaxOf(intervals) - MinOf(intervals)) + 1
        up == CHOOSE t \in 0..top :
                /\ (t = 0 \/ (2 * t - 1) * (2 * t - 1) * m * m <= 400 * V)
                /\ 400 * V < (2 * t + 1) * (2 * t + 1) * m * m
    IN  IF up > 0 /\ (2 * up - 1) * (2 * up - 1) * m * m = 400 * V /\ up % 2 = 1
        THEN up - 1
        ELSE up

analyze_usage_pattern(customer_data) ==
    IF customer_data.shape # "dict" THEN Raise("TypeError: not subscriptable")
    ELSE IF "orders" \notin customer_data.keys THEN Raise("KeyError: 'orders'")
    ELSE
        LET orders == customer_data.orders
            bad == {i \in 1..Len(orders) :
                       \/ "date" \notin orders[i].keys
                       \/ fromisoformat(orders[i].date).kind = "raise"}
        IN  IF Len(orders) < 2
            THEN Return([pattern |-> "insufficient_data",
                         avg_days_between_orders |-> "None",
                         consistency |-> "unknown"])
            ELSE IF bad # {}
            THEN Raise("KeyError or ValueError: date")
            ELSE LET intervals == order_intervals(orders)
                 IN  Return([pattern |-> pattern_of(intervals),
                             avg_days_between_orders |->
                                 <<RoundTenths(SumTo(intervals, Len(intervals)),
                                               Len(intervals)), 10>>,
                             std_days |-> <<RoundStdTenths(intervals), 10>>,
                             consistency |-> consistency_of(intervals),
                             total_orders |-> Len(orders)])

(***************************************************************************)
(* get_recommendation                                                      *)
(***************************************************************************)
\* np.max
max_prob_of(predictions) == MaxOf(predictions)

argmax_last(predictions) ==
    (CHOOSE i \in DOMAIN predictions :
        /\ predictions[i] = MaxOf(predictions)
        /\ \A j \in DOMAIN predictions : predictions[j] = MaxOf(predictions) => j <= i) - 1

\* np.argmax: the first index of the maximum (0-based)
argmax(predictions) ==
    (CHOOSE i \in DOMAIN predictions :
        /\ predictions[i] = MaxOf(predictions)
        /\ \A j \in DOMAIN predictions : predictions[j] = MaxOf(predictions) => i <= j) - 1

urgent_above == <<8, 10>>
urgent_within == 3
reminder_above == <<6, 10>>
reminder_within == 5

forecaster_get_recommendation(predictions, usage_pattern) ==
    LET max_prob == <<max_prob_of(predictions), ProbDen>>
        days_until == argmax(predictions) + 1
    IN  IF RatGT(max_prob, urgent_above) /\ days_until <= urgent_within
        THEN [action |-> "send_urgent_reminder",
              message |-> [text |-> "You'll likely need gas in {days_until} days. Order now to avoid running out!",
                           days_until |-> days_until],
              urgency |-> "high"]
        ELSE IF RatGT(max_prob, reminder_above) /\ days_until <= reminder_within
        THEN [action |-> "send_reminder",
              message |-> [text |-> "Based on your usage, you may need gas around {days_until} days from now.",
                           days_until |-> days_until],
              urgency |-> "medium"]
        ELSE [action |-> "monitor",
              message |-> [text |-> "Your gas supply looks good for now. We'll remind you when it's time."],
              urgency |-> "low"]

(***************************************************************************)
(* predict_next_order and batch_predict                                    *)
(*                                                                         *)
(* The network's answer to a customer's sequence is [fault, predictions]:  *)
(* it raises when fault, and returns the 7 per-day probabilities (tenths)  *)
(* otherwise.                                                              *)
(***************************************************************************)
lstm_predict(lstm, sequence) ==
    IF lstm.fault THEN Raise("framework error") ELSE Return(lstm.predictions)

\* The try block of predict_next_order.
predict_body(customer_data, lstm, now) ==
    LET features == extract_features(customer_data)
    IN  IF features.kind = "raise" THEN features
        ELSE
        LET sequence == prepare_sequences(features.value)
        IN  IF sequence.kind = "raise" THEN sequence
            ELSE
            LET predicted == lstm_predict(lstm, sequence.value)
            IN  IF predicted.kind = "raise" THEN predicted
                ELSE
                LET predictions == predicted.value
                    orders == customer_data.orders
                    last_order == orders[Len(orders)]
                    last_order_date == fromisoformat(last_order.date).value
                    forecast ==
                        [day \in 1..forecast_days |->
                            [date |-> AddDays(last_order_date, day),
                             probability |-> <<predictions[day], ProbDen>>,
                             day_offset |-> day]]
                    max_prob_idx == argmax(predictions)
                    most_likely_date == AddDays(last_order_date, max_prob_idx + 1)
                    usage_pattern == analyze_usage_pattern(customer_data)
                IN  IF usage_pattern.kind = "raise" THEN usage_pattern
                    ELSE IF "customer_id" \notin customer_data.keys
                    THEN Raise("KeyError: 'customer_id'")
                    ELSE Return(
                        [customer_id |-> customer_data.customer_id,
                         last_order_date |-> last_order.date,
                         predicted_order_date |-> most_likely_date,
                         confidence |-> <<predictions[max_prob_idx + 1], ProbDen>>,
                         forecast |-> forecast,
                         usage_pattern |-> usage_pattern.value,
                         recommendation |->
                             forecaster_get_recommendation(predictions,
                                                           usage_pattern.value),
                         timestamp |-> now])

\* customer_data.get('customer_id', 'unknown'): AttributeError when
\* customer_data is no dictionary.
get_customer_id(customer_data) ==
    IF customer_data.shape # "dict"
    THEN Raise("AttributeError: no attribute 'get'")
    ELSE IF "customer_id" \in customer_data.keys
    THEN Return(customer_data.customer_id)
    ELSE Return("unknown")

\* except Exception as e: the handler builds the error object; an exception
\* raised while building it leaves the function.
predict_next_order(customer_data, lstm, now) ==
    LET body == predict_body(customer_data, lstm, now)
    IN  IF body.kind = "raise"
        THEN IF get_customer_id(customer_data).kind = "raise"
             THEN get_customer_id(customer_data)
             ELSE Return([error |-> body.exc,
                          customer_id |-> get_customer_id(customer_data).value,
                          timestamp |-> now])
        ELSE body

\* for customer_data in customers_data: predictions.append(predict_next_order(...))
\* The k-th call is answered by lstms[k] at time now + k - 1; an exception
\* leaving a call leaves batch_predict, and the list built so far is lost.
RECURSIVE batch_loop(_, _, _, _, _)
batch_loop(customers_data, lstms, now, k, predictions) ==
    IF k > Len(customers_data) THEN Return(predictions)
    ELSE LET prediction == predict_next_order(customers_data[k], lstms[k], now + k - 1)
         IN  IF prediction.kind = "raise" THEN prediction
             ELSE batch_loop(customers_data, lstms, now, k + 1,
                             Append(predictions, prediction.value))

batch_predict(customers_data, lstms, now) ==
    batch_loop(customers_data, lstms, now, 1, <<>>)

(***************************************************************************)
(* Inputs of the forecaster                                                *)
(***************************************************************************)
MaxOrders == 32
MaxIntervals == 4
MaxBatch == 3

StartDate == <<2024, 1, 15>>
SizeCycle == <<"13kg", "6kg", "50kg", "9kg">>

RECURSIVE PrefixSum(_, _)
PrefixSum(f, n) == IF n = 0 THEN 0 ELSE f[n] + PrefixSum(f, n - 1)

\* The order list whose consecutive dates are `intervals` days apart.
History(intervals) ==
    [i \in 1..(Len(intervals) + 1) |->
        [keys |-> {"date", "cylinder_size"},
         date |-> AddDays(StartDate, PrefixSum(intervals, i - 1)),
         cylinder_size |-> SizeCycle[((i - 1) % Len(SizeCycle)) + 1]]]

Customer(orders) ==
    [shape |-> "dict",
     keys |-> {"customer_id", "family_size", "orders"},
     customer_id |-> "CUST123",
     family_size |-> 5,
     orders |-> orders]

\* An argument that is no dictionary (None, a list).
NonDict ==
    [shape |-> "none", keys |-> {}, customer_id |-> "", family_size |-> 0,
     orders |-> <<>>]

GapPatterns == {<<26, 24, 23>>, <<7>>, <<30, 0, 14, 1>>}

Periodic(pattern, n) == [k \in 1..n |-> pattern[((k - 1) % Len(pattern)) + 1]]

\* Histories of 0..MaxOrders orders.
LongHistories ==
    {<<>>} \cup {History(Periodic(g, n - 1)) : g \in GapPatterns, n \in 1..MaxOrders}

Malformations ==
    {"none", "no_family_size", "no_customer_id", "no_orders", "non_dict",
     "invalid_date", "no_date", "no_cylinder_size"}

\* The record `c` with one malformation; the ones of an order are applied to
\* the last order, and leave a customer without orders as it is.
Malformed(c, how) ==
    LET n == Len(c.orders)
    IN  IF how = "no_family_size" THEN [c EXCEPT !.keys = @ \ {"family_size"}]
        ELSE IF how = "no_customer_id" THEN [c EXCEPT !.keys = @ \ {"customer_id"}]
        ELSE IF how = "no_orders" THEN [c EXCEPT !.keys = @ \ {"orders"}]
        ELSE IF how = "non_dict" THEN NonDict
        ELSE IF how = "invalid_date" /\ n > 0
             THEN [c EXCEPT !.orders[n].date = <<2024, 2, 30>>]
        ELSE IF how = "no_date" /\ n > 0
             THEN [c EXCEPT !.orders[n].keys = @ \ {"date"}]
        ELSE IF how = "no_cylinder_size" /\ n > 0
             THEN [c EXCEPT !.orders[n].keys = @ \ {"cylinder_size"}]
        ELSE c

LstmGood == [fault |-> FALSE, predictions |-> <<1, 2, 9, 9, 3, 0, 5>>]
LstmFaulty == [fault |-> TRUE, predictions |-> <<0, 0, 0, 0, 0, 0, 0>>]

LstmAnswers ==
    {LstmFaulty, LstmGood, [fault |-> FALSE, predictions |-> <<5, 5, 5, 5, 5, 5, 5>>]}

\* Inter-order intervals of the short histories, all of which are drawn:
\* ratios stddev/mean of exactly 0.2 (4, 6) and 0.4 (3, 7), same-day orders
\* (0) and orders out of date order (-4).
IntervalChoices == {-4, 0, 3, 4, 6, 7}

ShortHistories ==
    {<<>>} \cup
    UNION {{History(iv) : iv \in [1..k -> IntervalChoices]} : k \in 0..MaxIntervals}

\* Per-day probabilities (numerators over ProbDen) on both sides of 0.6 and 0.8.
RecLevels == {5, 6, 8, 9}

BatchCases ==
    {[how |-> "none", id |-> "CUST123", lstm |-> LstmGood],
     [how |-> "none", id |-> "CUST124", lstm |-> LstmFaulty],
     [how |-> "no_customer_id", id |-> "CUST125", lstm |-> LstmGood],
     [how |-> "invalid_date", id |-> "CUST126", lstm |-> LstmGood],
     [how |-> "non_dict", id |-> "CUST127", lstm |-> LstmGood]}

BatchItems ==
    {[customer_data |->
        Malformed([Customer(History(<<26, 24, 23>>)) EXCEPT !.customer_id = x.id],
                  x.how),
      lstm |-> x.lstm] : x \in BatchCases}

NoInput == [shape |-> "unset"]

(***************************************************************************)
(* Specification of the scanner: a picture is drawn, then scanned.         *)
(***************************************************************************)
ForecasterIdle ==
    /\ customer = NoInput
    /\ lstm_answer = NoInput
    /\ features_out = NoCall
    /\ sequence_out = NoCall
    /\ usage_out = NoCall
    /\ prediction_out = NoCall
    /\ rec_args = NoInput
    /\ recommendation = NoCall
    /\ batch = NoInput
    /\ batch_result = NoCall

ScannerIdle ==
    /\ image = NoInput
    /\ report = NoCall
    /\ twin = NoCall

InitScan ==
    /\ clock = 0
    /\ \E p \in PredictionVectors, r \in RustPercentages, f \in Faults :
          \E o \in ArgsortResults(p) :
             image = [predictions |-> p, argsort |-> o,
                      rust_percentage |-> r, fault |-> f]
    /\ report = NoCall
    /\ twin = NoCall
    /\ ForecasterIdle

ScanCylinder ==
    /\ report.kind = "none"
    /\ report' = scan_cylinder(image, clock)
    /\ clock' = clock + 1
    /\ UNCHANGED <<image, twin, forecasterVars>>

NextScan == ScanCylinder

SpecScan == InitScan /\ [][NextScan]_vars

\* The same picture as the colour mask would see it with the other reading:
\* the classifier's output is unchanged, only the rust percentage differs.
OtherRust(img) ==
    [img EXCEPT !.rust_percentage =
        CHOOSE r \in RustPercentages : r # img.rust_percentage]

ScanTwin ==
    /\ report.kind # "none"
    /\ twin.kind = "none"
    /\ twin' = scan_cylinder(OtherRust(image), clock)
    /\ clock' = clock + 1
    /\ UNCHANGED <<image, report, forecasterVars>>

NextRust == ScanCylinder \/ ScanTwin

SpecRust == InitScan /\ [][NextRust]_vars

(***************************************************************************)
(* Specification of the forecaster on one customer: feature extraction,    *)
(* sequence preparation and the prediction, each applied once.             *)
(***************************************************************************)
InitForecast ==
    /\ clock = 0
    /\ ScannerIdle
    /\ \E h \in LongHistories, how \in Malformations :
          customer = Malformed(Customer(h), how)
    /\ lstm_answer \in LstmAnswers
    /\ features_out = NoCall
    /\ sequence_out = NoCall
    /\ usage_out = NoCall
    /\ prediction_out = NoCall
    /\ rec_args = NoInput
    /\ recommendation = NoCall
    /\ batch = NoInput
    /\ batch_result = NoCall

ExtractFeatures ==
    /\ features_out.kind = "none"
    /\ features_out' = extract_features(customer)
    /\ UNCHANGED <<clock, scannerVars, customer, lstm_answer, sequence_out, usage_out, prediction_out,
                   rec_args, recommendation, batch, batch_result>>

PrepareSequences ==
    /\ features_out.kind = "return"
    /\ sequence_out.kind = "none"
    /\ sequence_out' = prepare_sequences(features_out.value)
    /\ UNCHANGED <<clock, scannerVars, customer, lstm_answer, features_out, usage_out, prediction_out,
                   rec_args, recommendation, batch, batch_result>>

PredictNextOrder ==
    /\ prediction_out.kind = "none"
    /\ prediction_out' = predict_next_order(customer, lstm_answer, clock)
    /\ clock' = clock + 1
    /\ UNCHANGED <<scannerVars, customer, lstm_answer, features_out, sequence_out, usage_out,
                   rec_args, recommendation, batch, batch_result>>

NextForecast == ExtractFeatures \/ PrepareSequences \/ PredictNextOrder

SpecForecast == InitForecast /\ [][NextForecast]_vars

(***************************************************************************)
(* Specification of analyze_usage_pattern on every short history.          *)
(***************************************************************************)
InitUsage ==
    /\ clock = 0
    /\ ScannerIdle
    /\ \E h \in ShortHistories : customer = Customer(h)
    /\ lstm_answer = NoInput
    /\ features_out = NoCall
    /\ sequence_out = NoCall
    /\ usage_out = NoCall
    /\ prediction_out = NoCall
    /\ rec_args = NoInput
    /\ recommendation = NoCall
    /\ batch = NoInput
    /\ batch_result = NoCall

AnalyzeUsagePattern ==
    /\ usage_out.kind = "none"
    /\ usage_out' = analyze_usage_pattern(customer)
    /\ UNCHANGED <<clock, scannerVars, customer, lstm_answer, features_out, sequence_out, prediction_out,
                   rec_args, recommendation, batch, batch_result>>

NextUsage == AnalyzeUsagePattern

SpecUsage == InitUsage /\ [][NextUsage]_vars

(***************************************************************************)
(* Specification of extract_features on every short history and on the     *)
(* periodic long ones.                                                     *)
(***************************************************************************)
InitFeatures ==
    /\ clock = 0
    /\ ScannerIdle
    /\ \E h \in ShortHistories \cup LongHistories : customer = Customer(h)
    /\ lstm_answer = NoInput
    /\ features_out = NoCall
    /\ sequence_out = NoCall
    /\ usage_out = NoCall
    /\ prediction_out = NoCall
    /\ rec_args = NoInput
    /\ recommendation = NoCall
    /\ batch = NoInput
    /\ batch_result = NoCall

NextFeatures == ExtractFeatures

SpecFeatures == InitFeatures /\ [][NextFeatures]_vars

(***************************************************************************)
(* Specification of get_recommendation on every vector of per-day          *)
(* probabilities over RecLevels and two usage patterns.                        *)
(***************************************************************************)
InitRecommend ==
    /\ clock = 0
    /\ ScannerIdle
    /\ customer = NoInput
    /\ lstm_answer = NoInput
    /\ features_out = NoCall
    /\ sequence_out = NoCall
    /\ usage_out = NoCall
    /\ prediction_out = NoCall
    /\ \E p \in [1..forecast_days -> RecLevels], h \in {<<>>, <<4, 6>>} :
          rec_args = [predictions |-> p,
                      usage_pattern |-> analyze_usage_pattern(Customer(History(h))).value]
    /\ recommendation = NoCall
    /\ batch = NoInput
    /\ batch_result = NoCall

GetRecommendation ==
    /\ recommendation.kind = "none"
    /\ recommendation' =
          Return(forecaster_get_recommendation(rec_args.predictions,
                                               rec_args.usage_pattern))
    /\ UNCHANGED <<clock, scannerVars, customer, lstm_answer, features_out, sequence_out, usage_out,
                   prediction_out, rec_args, batch, batch_result>>

NextRecommend == GetRecommendation

SpecRecommend == InitRecommend /\ [][NextRecommend]_vars

(***************************************************************************)
(* Specification of batch_predict on every list of up to MaxBatch items.   *)
(***************************************************************************)
InitBatch ==
    /\ clock = 0
    /\ ScannerIdle
    /\ customer = NoInput
    /\ lstm_answer = NoInput
    /\ features_out = NoCall
    /\ sequence_out = NoCall
    /\ usage_out = NoCall
    /\ prediction_out = NoCall
    /\ rec_args = NoInput
    /\ recommendation = NoCall
    /\ \E k \in 0..MaxBatch : batch \in [1..k -> BatchItems]
    /\ batch_result = NoCall

BatchPredict ==
    /\ batch_result.kind = "none"
    /\ batch_result' =
          batch_predict([k \in 1..Len(batch) |-> batch[k].customer_data],
                        [k \in 1..Len(batch) |-> batch[k].lstm], clock)
    /\ clock' = clock + Len(batch)
    /\ UNCHANGED <<scannerVars, customer, lstm_answer, features_out, sequence_out, usage_out, prediction_out,
                   rec_args, recommendation, batch>>

NextBatch == BatchPredict

SpecBatch == InitBatch /\ [][NextBatch]_vars

(***************************************************************************)
(* Properties of the scanner                                               *)
(***************************************************************************)
IsErrorReport(r) == r.kind = "return" /\ "error" \in DOMAIN r.value
IsScanReport(r) == r.kind = "return" /\ "error" \notin DOMAIN r.value

ScanReportFields ==
    {"image_path", "primary_issue", "confidence", "severity_level",
     "all_detections", "rust_analysis", "expiry_analysis", "is_safe",
     "recommendation"}

\* C3: scan_cylinder never raises; when a step of the scan fails (image not
\* decodable, model raises, rust heuristic raises) it returns a report made
\* of exactly 'error' and 'timestamp', with none of the normal fields; when
\* no step fails the report is a normal one.
C3_ScanNeverRaises ==
    report.kind # "none" =>
        /\ report.kind = "return"
        /\ image.fault # "none" =>
              /\ DOMAIN report.value = {"error", "timestamp"}
              /\ DOMAIN report.value \cap ScanReportFields = {}
              /\ report.value.timestamp = 0
        /\ image.fault = "none" => IsScanReport(report)

C3_Witness ==
    /\ image.fault = "unreadable"
    /\ IsErrorReport(report)
    /\ "timestamp" \in DOMAIN report.value

\* C4: in every non-error report, is_safe is true iff primary_issue is
\* 'safe' and confidence > 0.7 (strictly); at exactly 0.7 it is false.
C4_IsSafeRule ==
    IsScanReport(report) =>
        (report.value.is_safe <=>
            /\ report.value.primary_issue = "safe"
            /\ 10 * report.value.confidence[1] > 7 * report.value.confidence[2])

C4_Witness ==
    /\ IsScanReport(report)
    /\ report.value.primary_issue = "safe"
    /\ 10 * report.value.confidence[1] = 7 * report.value.confidence[2]
    /\ ~report.value.is_safe

\* C9: two scans whose model probability vectors are equal and whose
\* detect_rust results differ agree on primary_issue, confidence,
\* severity_level, all_detections, is_safe and recommendation, and differ
\* only in rust_analysis.detected (and timestamp).
C9_RustNeverOverrides ==
    (IsScanReport(report) /\ IsScanReport(twin)) =>
        /\ \A f \in ScanReportFields \ {"rust_analysis"} :
              report.value[f] = twin.value[f]
        /\ report.value.rust_analysis.method = twin.value.rust_analysis.method
        /\ report.value.rust_analysis.detected # twin.value.rust_analysis.detected

C9_Witness ==
    /\ IsScanReport(report)
    /\ IsScanReport(twin)
    /\ report.value.primary_issue = "safe"
    /\ report.value.is_safe
    /\ twin.value.rust_analysis.detected
    /\ report.value.timestamp # twin.value.timestamp

\* C10: all_detections has exactly 3 entries naming 3 distinct classes of
\* the class list, in non-increasing confidence; no class left out has a
\* strictly higher probability than a listed one; each severity is the
\* static severity of its class; primary_issue, confidence and
\* severity_level are those of the first entry.
ClassIndex(name) == CHOOSE i \in 1..NumClasses : classes[i] = name

C10_TopThree ==
    IsScanReport(report) =>
        LET d == report.value.all_detections
            listed == {d[k].issue : k \in 1..Len(d)}
        IN  /\ Len(d) = 3
            /\ Cardinality(listed) = 3
            /\ listed \subseteq {classes[i] : i \in 1..NumClasses}
            /\ \A k \in 1..2 : ~RatLT(d[k].confidence, d[k + 1].confidence)
            /\ \A k \in 1..3 :
                  /\ RatEQ(d[k].confidence,
                           <<image.predictions[ClassIndex(d[k].issue)], ProbDen>>)
                  /\ d[k].severity = severity[d[k].issue]
            /\ \A i \in 1..NumClasses : classes[i] \notin listed =>
                  \A k \in 1..3 :
                      ~RatLT(d[k].confidence, <<image.predictions[i], ProbDen>>)
            /\ report.value.primary_issue = d[1].issue
            /\ report.value.confidence = d[1].confidence
            /\ report.value.severity_level = d[1].severity

\* A ranking with a tie at the cut: the third entry and a class left out
\* have the same probability, and the first is strictly ahead.
C10_Witness ==
    /\ IsScanReport(report)
    /\ RatLT(report.value.all_detections[2].confidence,
             report.value.all_detections[1].confidence)
    /\ \E i \in 1..NumClasses :
          /\ \A k \in 1..3 : report.value.all_detections[k].issue # classes[i]
          /\ image.predictions[i] > 0
          /\ RatEQ(report.value.all_detections[3].confidence,
                   <<image.predictions[i], ProbDen>>)

(***************************************************************************)
(* Properties of the forecaster                                            *)
(***************************************************************************)
IsErrorObject(r) == "error" \in DOMAIN r

ExpectedCustomerId(c) ==
    IF c.shape = "dict" /\ "customer_id" \in c.keys THEN c.customer_id ELSE "unknown"

\* A record for which the prediction cannot succeed.
BadRecord(c) ==
    \/ c.shape # "dict"
    \/ ~({"customer_id", "orders"} \subseteq c.keys)
    \/ Len(c.orders) = 0
    \/ \E i \in 1..Len(c.orders) :
          \/ ~({"date", "cylinder_size"} \subseteq c.orders[i].keys)
          \/ c.orders[i].date[3] > DaysInMonth(c.orders[i].date[1], c.orders[i].date[2])

\* C1: predict_next_order never propagates an exception: for every
\* customer_data (well-formed, missing keys, no orders, malformed dates, a
\* record of any shape) and any exception of the model the call returns, and
\* on failure it returns an object of 'error', 'timestamp' and 'customer_id',
\* the latter being the record's id or "unknown".
C1_NeverPropagates ==
    prediction_out.kind # "none" =>
        /\ prediction_out.kind = "return"
        /\ (BadRecord(customer) \/ lstm_answer.fault) =>
              /\ DOMAIN prediction_out.value = {"error", "timestamp", "customer_id"}
              /\ prediction_out.value.customer_id = ExpectedCustomerId(customer)

\* C2: batch_predict returns, for every input list of length k and whatever
\* records are bad, a list of k results in input order: result i belongs to
\* customer i, a bad record yields an error report at its position, and the
\* records after a bad one are still processed.
C2_BatchIsolates ==
    batch_result.kind # "none" =>
        /\ batch_result.kind = "return"
        /\ Len(batch_result.value) = Len(batch)
        /\ \A i \in 1..Len(batch) :
              /\ batch_result.value[i].customer_id =
                    ExpectedCustomerId(batch[i].customer_data)
              /\ batch_result.value[i].timestamp = i - 1
              /\ IsErrorObject(batch_result.value[i]) <=>
                    (BadRecord(batch[i].customer_data) \/ batch[i].lstm.fault)

IsZeroRow(row) == Len(row) = num_features /\ \A c \in 1..Len(row) : row[c][1] = 0

\* C5: for every history of n < 30 orders (n = 0..29), prepare_sequences
\* on the extracted features yields exactly 30 rows of 7 features: 30 - n
\* all-zero rows followed by the n feature rows in their order.
C5_ShortHistoryPadded ==
    (features_out.kind = "return" /\ Len(features_out.value) < 30
        /\ sequence_out.kind # "none") =>
        /\ sequence_out.kind = "return"
        /\ Len(sequence_out.value) = 1
        /\ LET n == Len(features_out.value)
               rows == sequence_out.value[1]
           IN  /\ Len(rows) = 30
               /\ \A k \in 1..30 : Len(rows[k]) = 7
               /\ \A k \in 1..(30 - n) : IsZeroRow(rows[k])
               /\ \A k \in 1..n : rows[30 - n + k] = features_out.value[k]

\* What the code does hold for every history of 1..29 orders.
PaddedFromOneOrder ==
    (features_out.kind = "return" /\ Len(features_out.value) \in 1..29
        /\ sequence_out.kind # "none") =>
        /\ sequence_out.kind = "return"
        /\ LET n == Len(features_out.value)
               rows == sequence_out.value[1]
           IN  /\ Len(rows) = 30
               /\ \A k \in 1..30 : Len(rows[k]) = 7
               /\ \A k \in 1..(30 - n) : IsZeroRow(rows[k])
               /\ \A k \in 1..n : rows[30 - n + k] = features_out.value[k]

\* C6: for every history of n >= 30 orders, prepare_sequences yields exactly
\* the feature rows n-30 .. n-1 (0-based), oldest first: rows are dropped
\* from the front only, and no zero row is added.
C6_LongHistoryTruncated ==
    (features_out.kind = "return" /\ Len(features_out.value) >= 30
        /\ sequence_out.kind # "none") =>
        /\ sequence_out.kind = "return"
        /\ Len(sequence_out.value) = 1
        /\ LET n == Len(features_out.value)
               rows == sequence_out.value[1]
           IN  /\ Len(rows) = 30
               /\ \A k \in 1..30 : rows[k] = features_out.value[n - 30 + k]
               /\ \A k \in 1..30 : ~IsZeroRow(rows[k])

C6_Witness ==
    /\ features_out.kind = "return"
    /\ Len(features_out.value) > 30
    /\ sequence_out.kind = "return"
    /\ sequence_out.value[1][1] # features_out.value[1]
    /\ sequence_out.value[1][30] = features_out.value[Len(features_out.value)]

\* C7: get_recommendation depends only on p (the maximum per-day
\* probability) and d (1 + the index of its earliest occurrence): urgency
\* 'high' exactly when p > 0.8 and d <= 3, otherwise 'medium' exactly when
\* p > 0.6 and d <= 5, otherwise 'low'; the comparisons with p are strict,
\* the usage_pattern argument does not matter, and the day count of the
\* urgent and medium messages is d.
C7_RecommendationRule ==
    recommendation.kind = "return" =>
        LET v == rec_args.predictions
            p == CHOOSE x \in RecLevels :
                    (\E i \in 1..7 : v[i] = x) /\ (\A i \in 1..7 : v[i] <= x)
            d == CHOOSE i \in 1..7 : v[i] = p /\ \A j \in 1..(i - 1) : v[j] < p
            urgent == 10 * p > 8 * ProbDen /\ d <= 3
            medium == ~urgent /\ 10 * p > 6 * ProbDen /\ d <= 5
            r == recommendation.value
        IN  /\ (r.urgency = "high") <=> urgent
            /\ (r.urgency = "medium") <=> medium
            /\ (r.urgency = "low") <=> (~urgent /\ ~medium)
            /\ (r.action = "send_urgent_reminder") <=> urgent
            /\ (r.action = "send_reminder") <=> medium
            /\ (r.action = "monitor") <=> (~urgent /\ ~medium)
            /\ (urgent \/ medium) => r.message.days_until = d
            /\ \A h \in {<<>>, <<4, 6>>} :
                  forecaster_get_recommendation(v,
                      analyze_usage_pattern(Customer(History(h))).value) = r

\* The maximum 0.8 on day 3, reached again later: not urgent (0.8 is not
\* above 0.8) but a medium reminder for day 3.
C7_Witness ==
    /\ recommendation.kind = "return"
    /\ rec_args.predictions[3] = 8
    /\ rec_args.predictions[6] = 8
    /\ \A i \in 1..2 : rec_args.predictions[i] < 8
    /\ \A i \in 1..7 : rec_args.predictions[i] <= 8
    /\ rec_args.usage_pattern.pattern = "insufficient_data"
    /\ recommendation.value.urgency = "medium"
    /\ recommendation.value.message.days_until = 3

\* The claim's reading of stddev/mean for m intervals of sum S with
\* V = m * sum of squares - S * S: the ratio is sqrt(V) / S; it is undefined
\* when S = 0 and V = 0, and above every bound when S = 0 < V.
IntervalsOf(c) ==
    [i \in 1..(Len(c.orders) - 1) |->
        ToOrdinal(c.orders[i + 1].date) - ToOrdinal(c.orders[i].date)]

IntervalSum(iv) == SumTo(iv, Len(iv))
IntervalSpread(iv) == Len(iv) * SumSq(iv, Len(iv)) - IntervalSum(iv) * IntervalSum(iv)
RatioDefined(iv) == IntervalSum(iv) # 0 \/ IntervalSpread(iv) # 0

\* stddev/mean < p/10
RatioBelow(iv, p) ==
    /\ RatioDefined(iv)
    /\ \/ IntervalSum(iv) < 0
       \/ /\ IntervalSum(iv) > 0
          /\ 100 * IntervalSpread(iv) < p * p * IntervalSum(iv) * IntervalSum(iv)

\* stddev/mean >= p/10
RatioAtLeast(iv, p) == RatioDefined(iv) /\ ~RatioBelow(iv, p)

\* C8 as stated: for every customer with at least 2 orders the consistency
\* label is 'very_consistent' when stddev/mean < 0.2, 'consistent' when
\* 0.2 <= stddev/mean < 0.4 and 'variable' when stddev/mean >= 0.4, and
\* these three cases cover every interval list.
C8_RatioBandsCoverAll ==
    (usage_out.kind # "none" /\ Len(customer.orders) >= 2) =>
        /\ usage_out.kind = "return"
        /\ LET iv == IntervalsOf(customer)
               label == usage_out.value.consistency
           IN  /\ (label = "very_consistent") <=> RatioBelow(iv, 2)
               /\ (label = "consistent") <=> (RatioAtLeast(iv, 2) /\ RatioBelow(iv, 4))
               /\ (label = "variable") <=> RatioAtLeast(iv, 4)

\* C8 as amended: the three bands hold wherever the ratio is defined, and
\* the label is 'variable' when it is not (mean and stddev both 0).
C8_RatioBandsOrUndefined ==
    (usage_out.kind # "none" /\ Len(customer.orders) >= 2) =>
        /\ usage_out.kind = "return"
        /\ LET iv == IntervalsOf(customer)
               label == usage_out.value.consistency
           IN  /\ (label = "very_consistent") <=> RatioBelow(iv, 2)
               /\ (label = "consistent") <=> (RatioAtLeast(iv, 2) /\ RatioBelow(iv, 4))
               /\ (label = "variable") <=> (RatioAtLeast(iv, 4) \/ ~RatioDefined(iv))

\* Same-day orders (ratio undefined) labelled 'variable'.
C8_Witness ==
    /\ usage_out.kind = "return"
    /\ Len(customer.orders) = 3
    /\ \A i \in 1..2 : IntervalsOf(customer)[i] = 0
    /\ usage_out.value.consistency = "variable"

(***************************************************************************)
(* Feature 7 of extract_features                                           *)
(***************************************************************************)
\* The history is in date order.
Chronological(c) ==
    \A k \in 1..(Len(c.orders) - 1) : IntervalsOf(c)[k] >= 0

\* Sum of the three consecutive intervals of which the last one ends at
\* order `last` (1-based), read off the dates.
ThreeIntervalsEndingAt(c, last) ==
    IntervalsOf(c)[last - 3] + IntervalsOf(c)[last - 2] + IntervalsOf(c)[last - 1]

\* C11 as stated: for every order i of a history in date order, feature 7
\* is the average of the 3 most recent intervals between consecutive orders
\* that come before order i, divided by 100, when 3 such intervals exist
\* (order i has at least 4 predecessors), and 30 / 100 otherwise; so it does
\* not depend on order i's own date.
C11_AverageOfPriorIntervals ==
    (features_out.kind = "return" /\ Chronological(customer)) =>
        \A i \in 1..Len(customer.orders) :
            IF i - 1 >= 4
            THEN RatEQ(features_out.value[i][7],
                       <<ThreeIntervalsEndingAt(customer, i - 1), 300>>)
            ELSE RatEQ(features_out.value[i][7], <<30, 100>>)

\* C11 as amended: the 3 intervals averaged are the last three that end at
\* order i itself (between orders i-3, i-2, i-1 and i), whenever order i has
\* at least 3 predecessors, and feature 7 is 30 / 100 otherwise; the value
\* at order i includes the interval from the previous order to order i.
C11_AverageOfIntervalsUpToOrder ==
    (features_out.kind = "return" /\ Chronological(customer)) =>
        /\ Len(features_out.value) = Len(customer.orders)
        /\ \A i \in 1..Len(customer.orders) :
              IF i - 1 >= 3
              THEN RatEQ(features_out.value[i][7],
                         <<ThreeIntervalsEndingAt(customer, i), 300>>)
              ELSE RatEQ(features_out.value[i][7], <<30, 100>>)

\* Five orders in date order with intervals 3, 4, 6, 7: at the fifth order
\* the intervals ending there average 17/3, the ones before it 13/3.
C11_Witness ==
    /\ features_out.kind = "return"
    /\ Len(customer.orders) = 5
    /\ IntervalsOf(customer) = <<3, 4, 6, 7>>
    /\ RatEQ(features_out.value[5][7], <<17, 300>>)
    /\ RatEQ(features_out.value[4][7], <<13, 300>>)
    /\ RatEQ(features_out.value[3][7], <<30, 100>>)

(***************************************************************************)
(* The safety fields of a scan report                                      *)
(***************************************************************************)
SafeToUse == "Cylinder is in good condition. Safe to use."

\* C12 as stated: in every non-error report the recommendation is the
\* 'Cylinder is in good condition. Safe to use.' message if and only if
\* is_safe is true, and is_safe true implies severity_level 0.
C12_SafeMessageIffIsSafe ==
    IsScanReport(report) =>
        /\ (report.value.recommendation = SafeToUse) <=> report.value.is_safe
        /\ report.value.is_safe => report.value.severity_level = 0

\* C12 as amended: the recommendation is the 'Safe to use.' message if and
\* only if primary_issue is 'safe', whatever the confidence; is_safe true
\* implies that message and severity_level 0; a report with is_safe false
\* carries the message exactly when primary_issue is 'safe' with
\* confidence <= 0.7.
C12_SafeMessageIffPrimarySafe ==
    IsScanReport(report) =>
        /\ (report.value.recommendation = SafeToUse) <=>
               (report.value.primary_issue = "safe")
        /\ report.value.is_safe =>
               /\ report.value.recommendation = SafeToUse
               /\ report.value.severity_level = 0
        /\ (~report.value.is_safe /\ report.value.recommendation = SafeToUse) <=>
               /\ report.value.primary_issue = "safe"
               /\ 10 * report.value.confidence[1] <= 7 * report.value.confidence[2]

\* A report that is not safe (confidence below 0.7) and says 'Safe to use.'
C12_Witness ==
    /\ IsScanReport(report)
    /\ report.value.primary_issue = "safe"
    /\ 10 * report.value.confidence[1] < 7 * report.value.confidence[2]
    /\ ~report.value.is_safe
    /\ report.value.severity_level = 0
    /\ report.value.recommendation = SafeToUse

====
